---- MODULE Spec2Model ----
\* A model of the wordpress-mcp tool router (src/src/index.ts) and of the REST
\* adapter WordPressClient (src/src/wordpress.ts, and the fuller class in
\* src/unnamed/part_000 that carries the page and media methods).
\*
\* Conventions.  A JavaScript object is a function from property names to
\* values; a property whose value is `undefined` is a name outside the
\* function's DOMAIN (which is also what JSON.stringify keeps of an object).
\* A message is a sequence of string pieces, in the order the template
\* literals of the source concatenate them.
EXTENDS Integers, Sequences, FiniteSets, TLC

VARIABLES calls, remotePosts, client

vars == <<calls, remotePosts, client>>

----------------------------------------------------------------------------
\* Bounds and program constants

\* numeric identifiers a caller may pass are 1..MaxId
MaxId == 2

DefaultPerPage == 10
MaxPerPage == 100
TimeoutMs == 30000

\* call slots of the protocol host; Spec dispatches one call at a time
Slots == {1, 2}

----------------------------------------------------------------------------
\* JavaScript value semantics used by the adapter

Has(o, f) == f \in DOMAIN o

\* an optional input: <<TRUE, v>> is supplied, <<FALSE, _>> is absent
Some(S) == {<<TRUE, v>> : v \in S}
Opt(f, o) == IF o[1] THEN f :> o[2] ELSE <<>>

\* truthiness of params.f for a string / number property
TruthyStr(o, f) == Has(o, f) /\ o[f] # ""
TruthyNum(o, f) == Has(o, f) /\ o[f] # 0

\* params.f || d
OrStr(o, f, d) == IF TruthyStr(o, f) THEN o[f] ELSE d
OrNum(o, f, d) == IF TruthyNum(o, f) THEN o[f] ELSE d

\* a spread that sends the property whatever its value, "" when there is none
SpreadStrAlways(o, f) == f :> (IF Has(o, f) THEN o[f] ELSE "")

\* ...(params.f && { f: params.f })
SpreadStr(o, f) == IF TruthyStr(o, f) THEN f :> o[f] ELSE <<>>
SpreadNum(o, f) == IF TruthyNum(o, f) THEN f :> o[f] ELSE <<>>
\* an array is truthy whatever its length
SpreadArr(o, f) == IF Has(o, f) THEN f :> o[f] ELSE <<>>
\* ...(params.f !== undefined && { f: params.f })
SpreadDefined(o, f) == IF Has(o, f) THEN f :> o[f] ELSE <<>>

\* { f: src.g }: the property is undefined when src has no g
Field(f, src, g) == IF Has(src, g) THEN f :> src[g] ELSE <<>>

Min(a, b) == IF a <= b THEN a ELSE b

\* `${id}` in a template literal
IdStr(o) == IF Has(o, "id") THEN ToString(o.id) ELSE "undefined"

\* the message of the TypeError raised by reading property p of undefined
TypeErr(p) == "Cannot read properties of undefined (reading '" \o p \o "')"
NotAFunction(p) == p \o " is not a function"

\* the steps an async method can take: throw, suspend on a request, return
Throw(m) == [kind |-> "throw", msg |-> m]
Await(r) == [kind |-> "await", req |-> r]
Return(v) == [kind |-> "return", value |-> v, defined |-> TRUE]
ReturnUndefined == [kind |-> "return", value |-> <<>>, defined |-> FALSE]

\* a catch that passes the error on as it came
RethrowBare(prefix, step) == step

\* catch (error) { throw new Error(`<prefix>${error.message}`) }
Rethrow(prefix, step) ==
    IF step.kind = "throw" THEN Throw(prefix \o step.msg) ELSE step

----------------------------------------------------------------------------
\* Outbound requests (axios calls on this.client)

Request(m, p, q, d, h) ==
    [method |-> m, path |-> p, params |-> q, data |-> d, headers |-> h]

HttpGet(p, q) == Request("GET", p, q, <<>>, <<>>)
HttpPost(p, d) == Request("POST", p, <<>>, d, <<>>)
HttpPostRaw(p, d, h) == Request("POST", p, <<>>, d, h)
HttpDelete(p, q) == Request("DELETE", p, q, <<>>, <<>>)

----------------------------------------------------------------------------
\* The remote content API (the environment of the adapter)

\* the post the remote holds at start; remotePosts maps the ids of the posts
\* that exist to their title, content and status
SeedPost == [title |-> "Old", content |-> "Body", status |-> "draft"]

\* the id the remote gives to a newly created resource
NewId == MaxId + 1

Link(kind, id) == "https://example.test/?" \o kind \o "=" \o ToString(id)

PostRep(kind, id, p) ==
    [id |-> id,
     title |-> [rendered |-> p.title],
     content |-> [rendered |-> p.content],
     link |-> Link(kind, id),
     status |-> p.status,
     parent |-> 0]

\* the remote applies a partial update: only the properties of the payload
Merge(p, d) ==
    [title |-> IF Has(d, "title") THEN d.title ELSE p.title,
     content |-> IF Has(d, "content") THEN d.content ELSE p.content,
     status |-> IF Has(d, "status") THEN d.status ELSE p.status]

\* pages are answered from a fixed page per id (the remote keeps no page state
\* in this model)
SeedPage == [title |-> "About", content |-> "Us", status |-> "publish"]

MediaRep(id, mime) ==
    [id |-> id,
     title |-> [rendered |-> "photo"],
     source_url |-> Link("file", id),
     media_type |-> "image",
     mime_type |-> mime,
     alt_text |-> "",
     caption |-> [rendered |-> ""],
     description |-> [rendered |-> ""],
     media_details |-> [width |-> 1],
     link |-> Link("attachment_id", id),
     date |-> "2024-01-01T00:00:00"]

TermRep == [id |-> 1, name |-> "News"]
SearchHit == [id |-> 1, title |-> "Old", url |-> Link("p", 1),
              type |-> "post", subtype |-> "post", _links |-> "self"]
SiteRoot == [name |-> "Site", description |-> "A site",
             url |-> "https://example.test", timezone |-> "UTC",
             namespaces |-> "wp/v2"]

IdStrings == {ToString(i) : i \in 1..NewId}
IdOfString(s) == CHOOSE i \in 1..NewId : ToString(i) = s

IsCollection(req) == Len(req.path) = 1
Resource(req) == req.path[1]

\* whether the addressed resource exists on the remote
Exists(req, posts) ==
    \/ IsCollection(req)
    \/ /\ Resource(req) = "/posts/"
       /\ req.path[2] \in IdStrings
       /\ IdOfString(req.path[2]) \in DOMAIN posts
    \/ /\ Resource(req) \in {"/pages/", "/media/"}
       /\ req.path[2] \in IdStrings

\* the body of a 2xx answer to req
OkBody(req, posts) ==
    LET res == Resource(req)
        id == IdOfString(req.path[2])
    IN
    CASE res = "/posts" /\ req.method = "GET" ->
           IF 1 \in DOMAIN posts /\ posts[1].status = req.params.status
           THEN <<PostRep("p", 1, posts[1])>> ELSE <<>>
      [] res = "/posts" /\ req.method = "POST" ->
           PostRep("p", NewId, Merge(SeedPost, req.data))
      [] res = "/posts/" /\ req.method = "GET" -> PostRep("p", id, posts[id])
      [] res = "/posts/" /\ req.method = "POST" ->
           PostRep("p", id, Merge(posts[id], req.data))
      [] res = "/posts/" /\ req.method = "DELETE" ->
           IF req.params.force
           THEN [deleted |-> TRUE, previous |-> PostRep("p", id, posts[id])]
           ELSE PostRep("p", id, [posts[id] EXCEPT !.status = "trash"])
      [] res = "/pages" /\ req.method = "GET" ->
           IF req.params.status = SeedPage.status
           THEN <<PostRep("page_id", 1, SeedPage)>> ELSE <<>>
      [] res = "/pages" /\ req.method = "POST" ->
           PostRep("page_id", NewId, Merge(SeedPage, req.data))
      [] res = "/pages/" /\ req.method = "GET" -> PostRep("page_id", id, SeedPage)
      [] res = "/pages/" /\ req.method = "POST" ->
           PostRep("page_id", id, Merge(SeedPage, req.data))
      [] res = "/pages/" /\ req.method = "DELETE" ->
           IF req.params.force
           THEN [deleted |-> TRUE, previous |-> PostRep("page_id", id, SeedPage)]
           ELSE PostRep("page_id", id, [SeedPage EXCEPT !.status = "trash"])
      [] res = "/categories" -> <<TermRep>>
      [] res = "/tags" -> <<TermRep>>
      [] res = "/search" -> <<SearchHit>>
      [] res = "/" -> SiteRoot
      [] res = "/media" /\ req.method = "GET" -> <<MediaRep(1, "image/jpeg")>>
      [] res = "/media" /\ req.method = "POST" ->
           MediaRep(NewId, req.headers["Content-Type"])
      [] res = "/media/" /\ req.method = "DELETE" ->
           [deleted |-> TRUE, previous |-> MediaRep(id, "image/jpeg")]
      [] res = "/media/" /\ req.method # "DELETE" -> MediaRep(id, "image/jpeg")

\* the remote has no trash for media: a DELETE without force is refused
Refused(req) ==
    Resource(req) = "/media/" /\ req.method = "DELETE" /\ ~req.params.force

\* the pagination headers a collection answer may or may not carry
HeaderSets(req) ==
    IF IsCollection(req) /\ req.method = "GET" /\ Resource(req) # "/"
    THEN {Opt("x-wp-total", t) @@ Opt("x-wp-totalpages", p) :
            t \in {<<FALSE, "">>, <<TRUE, "1">>},
            p \in {<<FALSE, "">>, <<TRUE, "1">>}}
    ELSE {<<>>}

\* a response: status "ok" is any 2xx; body "json" is the expected document,
\* "null" an empty body and "junk" a document without the expected properties
Response(s, c, b, d, h) ==
    [status |-> s, code |-> c, body |-> b, data |-> d, headers |-> h]

\* the rejections of a client that has no timeout
FailuresNoTimeout(req, posts) ==
    {Response("http", IF Exists(req, posts) THEN 500 ELSE 404, "null", <<>>, <<>>),
     Response("network", 0, "null", <<>>, <<>>)}

Failures(req, posts) ==
    {Response("http", IF Exists(req, posts) THEN 500 ELSE 404, "null", <<>>, <<>>),
     Response("network", 0, "null", <<>>, <<>>),
     Response("timeout", 0, "null", <<>>, <<>>)}

Successes(req, posts) ==
    IF Exists(req, posts) /\ ~Refused(req)
    THEN {Response("ok", 200, "json", OkBody(req, posts), h) : h \in HeaderSets(req)}
         \cup {Response("ok", 200, "null", <<>>, <<>>),
               Response("ok", 200, "junk", <<>>, <<>>)}
    ELSE {}

Responses(req, posts) == Failures(req, posts) \cup Successes(req, posts)

\* what a 2xx answer leaves on the remote
Apply(req, posts) ==
    LET id == IdOfString(req.path[2]) IN
    IF Resource(req) = "/posts/" /\ req.method = "POST"
    THEN [posts EXCEPT ![id] = Merge(posts[id], req.data)]
    ELSE IF Resource(req) = "/posts/" /\ req.method = "DELETE"
    THEN IF req.params.force
         THEN [i \in DOMAIN posts \ {id} |-> posts[i]]
         ELSE [posts EXCEPT ![id].status = "trash"]
    ELSE posts

\* error.message of the error axios rejects with
AxiosMessage(r) ==
    CASE r.status = "http" -> "Request failed with status code " \o ToString(r.code)
      [] r.status = "network" -> "Network Error"
      [] r.status = "timeout" -> "timeout of " \o ToString(TimeoutMs) \o "ms exceeded"

----------------------------------------------------------------------------
\* WordPressClient: the methods up to their first await, and what each does
\* with the answer.  params is the argument object; hasParams is FALSE when
\* the caller passed undefined.

\* reading response.data.<p>: a TypeError when the body is empty
BodyMissing(r) == r.body = "null"

\* { id, title: title.rendered, link, status } of response.data
ProjectCore(r) ==
    IF BodyMissing(r) THEN Throw(<<TypeErr("id")>>)
    ELSE IF ~Has(r.data, "title") THEN Throw(<<TypeErr("rendered")>>)
    ELSE Return(Field("id", r.data, "id")
                @@ Field("title", r.data.title, "rendered")
                @@ Field("link", r.data, "link")
                @@ Field("status", r.data, "status"))

\* Math.min(params.per_page || 10, 100)
PerPage(params) == Min(OrNum(params, "per_page", DefaultPerPage), MaxPerPage)

\* pagination counters that fall back to a number
PaginationDefaulted(r) ==
    ("total" :> IF Has(r.headers, "x-wp-total") THEN r.headers["x-wp-total"] ELSE "0")
    @@ ("totalPages" :> IF Has(r.headers, "x-wp-totalpages")
                        THEN r.headers["x-wp-totalpages"] ELSE "1")

\* total / totalPages read from the response headers
Pagination(r) ==
    Field("total", r.headers, "x-wp-total")
    @@ Field("totalPages", r.headers, "x-wp-totalpages")

\* the value of response.data placed under property f
RawData(f, r) == IF BodyMissing(r) THEN <<>> ELSE f :> r.data

\* a query that leaves the status out when the caller gave none
PostsQueryAnyStatus(params) ==
    ("per_page" :> PerPage(params))
    @@ ("page" :> OrNum(params, "page", 1))
    @@ SpreadStr(params, "status")
    @@ ("orderby" :> OrStr(params, "orderby", "date"))
    @@ ("order" :> OrStr(params, "order", "desc"))
    @@ SpreadStr(params, "search")

PostsQuery(params) ==
    ("per_page" :> PerPage(params))
    @@ ("page" :> OrNum(params, "page", 1))
    @@ ("status" :> OrStr(params, "status", "publish"))
    @@ ("orderby" :> OrStr(params, "orderby", "date"))
    @@ ("order" :> OrStr(params, "order", "desc"))
    @@ SpreadStr(params, "search")

getPosts(params) == Await(HttpGet(<<"/posts">>, PostsQuery(params)))

getPostsThen(params, r) ==
    Rethrow(<<"Failed to fetch posts: ">>,
        IF r.status # "ok" THEN Throw(<<AxiosMessage(r)>>)
        ELSE Return(RawData("posts", r) @@ Pagination(r)
                    @@ ("currentPage" :> PostsQuery(params).page)))

getPost(params) == Await(HttpGet(<<"/posts/", IdStr(params)>>, <<>>))

\* a getPost that sends its request again when it fails
getPostThenRetry(params, r) ==
    Rethrow(<<"Failed to fetch post ", IdStr(params), ": ">>,
        IF r.status # "ok" THEN getPost(params)
        ELSE IF BodyMissing(r) THEN ReturnUndefined
        ELSE Return(r.data))

getPostThen(params, r) ==
    Rethrow(<<"Failed to fetch post ", IdStr(params), ": ">>,
        IF r.status # "ok" THEN Throw(<<AxiosMessage(r)>>)
        ELSE IF BodyMissing(r) THEN ReturnUndefined
        ELSE Return(r.data))

\* a create payload whose status falls back to publish
CreatePostPayloadPublish(params) ==
    ("title" :> params.title)
    @@ ("content" :> OrStr(params, "content", ""))
    @@ ("excerpt" :> OrStr(params, "excerpt", ""))
    @@ ("status" :> OrStr(params, "status", "publish"))
    @@ SpreadNum(params, "featured_media")
    @@ SpreadArr(params, "categories")
    @@ SpreadArr(params, "tags")

CreatePostPayload(params) ==
    ("title" :> params.title)
    @@ ("content" :> OrStr(params, "content", ""))
    @@ ("excerpt" :> OrStr(params, "excerpt", ""))
    @@ ("status" :> OrStr(params, "status", "draft"))
    @@ SpreadNum(params, "featured_media")
    @@ SpreadArr(params, "categories")
    @@ SpreadArr(params, "tags")

\* a title check that rejects only an undefined title
createPostUndefinedOnly(hasParams, params) ==
    Rethrow(<<"Failed to create post: ">>,
        IF ~hasParams THEN Throw(<<TypeErr("title")>>)
        ELSE IF ~Has(params, "title") THEN Throw(<<"Post title is required">>)
        ELSE Await(HttpPost(<<"/posts">>, CreatePostPayload(params))))

createPost(hasParams, params) ==
    Rethrow(<<"Failed to create post: ">>,
        IF ~hasParams THEN Throw(<<TypeErr("title")>>)
        ELSE IF ~TruthyStr(params, "title") THEN Throw(<<"Post title is required">>)
        ELSE Await(HttpPost(<<"/posts">>, CreatePostPayload(params))))

createPostThen(params, r) ==
    Rethrow(<<"Failed to create post: ">>,
        IF r.status # "ok" THEN Throw(<<AxiosMessage(r)>>)
        ELSE LET core == ProjectCore(r) IN
             IF core.kind = "throw" THEN core
             ELSE IF ~Has(r.data, "content") THEN Throw(<<TypeErr("rendered")>>)
             ELSE Return(core.value @@ Field("content", r.data.content, "rendered")))

\* an update payload that always carries title and content
UpdatePostPayloadFull(params) ==
    ("title" :> OrStr(params, "title", ""))
    @@ ("content" :> OrStr(params, "content", ""))
    @@ SpreadStr(params, "excerpt")
    @@ SpreadStr(params, "status")
    @@ SpreadNum(params, "featured_media")
    @@ SpreadArr(params, "categories")
    @@ SpreadArr(params, "tags")

UpdatePostPayload(params) ==
    SpreadStr(params, "title")
    @@ SpreadStr(params, "content")
    @@ SpreadStr(params, "excerpt")
    @@ SpreadStr(params, "status")
    @@ SpreadNum(params, "featured_media")
    @@ SpreadArr(params, "categories")
    @@ SpreadArr(params, "tags")

updatePost(params) ==
    Await(HttpPost(<<"/posts/", IdStr(params)>>, UpdatePostPayload(params)))

updatePostThen(params, r) ==
    Rethrow(<<"Failed to update post ", IdStr(params), ": ">>,
        IF r.status # "ok" THEN Throw(<<AxiosMessage(r)>>) ELSE ProjectCore(r))

\* the force parameter: its default applies when the argument is undefined
Force(params, default) == IF Has(params, "force") THEN params.force ELSE default

deletePost(params) ==
    Await(HttpDelete(<<"/posts/", IdStr(params)>>, [force |-> Force(params, FALSE)]))

\* a deletePost that fails when the answer has no id at its top level
deletePostThenNeedsId(params, r) ==
    Rethrow(<<"Failed to delete post ", IdStr(params), ": ">>,
        IF r.status # "ok" THEN Throw(<<AxiosMessage(r)>>)
        ELSE IF BodyMissing(r) \/ ~Has(r.data, "id") THEN Throw(<<TypeErr("id")>>)
        ELSE Return(("message" :> IF Force(params, FALSE)
                                  THEN "Post permanently deleted"
                                  ELSE "Post moved to trash")
                    @@ Field("id", r.data, "id")))

deletePostThen(params, r) ==
    Rethrow(<<"Failed to delete post ", IdStr(params), ": ">>,
        IF r.status # "ok" THEN Throw(<<AxiosMessage(r)>>)
        ELSE IF BodyMissing(r) THEN Throw(<<TypeErr("id")>>)
        ELSE Return(("message" :> IF Force(params, FALSE)
                                  THEN "Post permanently deleted"
                                  ELSE "Post moved to trash")
                    @@ Field("id", r.data, "id")))

TermsQuery(params) == ("per_page" :> PerPage(params)) @@ SpreadStr(params, "search")

getCategories(params) == Await(HttpGet(<<"/categories">>, TermsQuery(params)))

getCategoriesThen(params, r) ==
    Rethrow(<<"Failed to fetch categories: ">>,
        IF r.status # "ok" THEN Throw(<<AxiosMessage(r)>>)
        ELSE Return(RawData("categories", r) @@ Field("total", r.headers, "x-wp-total")))

getTags(params) == Await(HttpGet(<<"/tags">>, TermsQuery(params)))

getTagsThen(params, r) ==
    Rethrow(<<"Failed to fetch tags: ">>,
        IF r.status # "ok" THEN Throw(<<AxiosMessage(r)>>)
        ELSE Return(RawData("tags", r) @@ Field("total", r.headers, "x-wp-total")))

publishPost(params) ==
    Await(HttpPost(<<"/posts/", IdStr(params)>>, [status |-> "publish"]))

publishPostThen(params, r) ==
    Rethrow(<<"Failed to publish post ", IdStr(params), ": ">>,
        IF r.status # "ok" THEN Throw(<<AxiosMessage(r)>>) ELSE ProjectCore(r))

getSiteInfo == Await(HttpGet(<<"/">>, <<>>))

Capabilities ==
    [canCreatePosts |-> TRUE, canUpdatePosts |-> TRUE, canDeletePosts |-> TRUE,
     canCreatePages |-> TRUE, canUpdatePages |-> TRUE, canDeletePages |-> TRUE,
     canManageCategories |-> TRUE, canManageTags |-> TRUE,
     canUploadMedia |-> TRUE, canDeleteMedia |-> TRUE]

getSiteInfoThen(r) ==
    Rethrow(<<"Failed to fetch site info: ">>,
        IF r.status # "ok" THEN Throw(<<AxiosMessage(r)>>)
        ELSE IF BodyMissing(r) THEN Throw(<<TypeErr("name")>>)
        ELSE Return(Field("name", r.data, "name")
                    @@ Field("description", r.data, "description")
                    @@ Field("url", r.data, "url")
                    @@ Field("timezone", r.data, "timezone")
                    @@ ("authentication" :> "Basic Auth (Application Password)")
                    @@ ("capabilities" :> Capabilities)))

SearchQuery(params) ==
    ("search" :> params.search)
    @@ ("per_page" :> PerPage(params))
    @@ ("page" :> OrNum(params, "page", 1))
    @@ SpreadStr(params, "type")
    @@ SpreadStr(params, "subtype")

searchSite(hasParams, params) ==
    Rethrow(<<"Failed to search site: ">>,
        IF ~hasParams THEN Throw(<<TypeErr("search")>>)
        ELSE IF ~TruthyStr(params, "search") THEN Throw(<<"Search term is required">>)
        ELSE Await(HttpGet(<<"/search">>, SearchQuery(params))))

\* response.data.map(f): a TypeError unless the body is an array
MapData(r) ==
    IF BodyMissing(r) THEN Throw(<<TypeErr("map")>>)
    ELSE IF r.body = "junk" THEN Throw(<<NotAFunction("response.data.map")>>)
    ELSE Return(r.data)

SearchItem(item) ==
    Field("id", item, "id") @@ Field("title", item, "title")
    @@ Field("url", item, "url") @@ Field("type", item, "type")
    @@ Field("subtype", item, "subtype")

searchSiteThen(params, r) ==
    Rethrow(<<"Failed to search site: ">>,
        IF r.status # "ok" THEN Throw(<<AxiosMessage(r)>>)
        ELSE LET items == MapData(r) IN
             IF items.kind = "throw" THEN items
             ELSE Return(("results" :> [i \in 1..Len(items.value) |->
                                        SearchItem(items.value[i])]) @@ Pagination(r)
                         @@ ("currentPage" :> SearchQuery(params).page)
                         @@ ("searchTerm" :> params.search)))

----------------------------------------------------------------------------
\* Page management

PagesQuery(params) == PostsQuery(params) @@ SpreadDefined(params, "parent")

getPages(params) == Await(HttpGet(<<"/pages">>, PagesQuery(params)))

getPagesThen(params, r) ==
    Rethrow(<<"Failed to fetch pages: ">>,
        IF r.status # "ok" THEN Throw(<<AxiosMessage(r)>>)
        ELSE Return(RawData("pages", r) @@ Pagination(r)
                    @@ ("currentPage" :> PagesQuery(params).page)))

getPage(params) == Await(HttpGet(<<"/pages/", IdStr(params)>>, <<>>))

getPageThen(params, r) ==
    Rethrow(<<"Failed to fetch page ", IdStr(params), ": ">>,
        IF r.status # "ok" THEN Throw(<<AxiosMessage(r)>>)
        ELSE IF BodyMissing(r) THEN ReturnUndefined
        ELSE Return(r.data))

CreatePagePayload(params) ==
    ("title" :> params.title)
    @@ ("content" :> OrStr(params, "content", ""))
    @@ ("excerpt" :> OrStr(params, "excerpt", ""))
    @@ ("status" :> OrStr(params, "status", "draft"))
    @@ SpreadNum(params, "featured_media")
    @@ SpreadDefined(params, "parent")

createPage(hasParams, params) ==
    Rethrow(<<"Failed to create page: ">>,
        IF ~hasParams THEN Throw(<<TypeErr("title")>>)
        ELSE IF ~TruthyStr(params, "title") THEN Throw(<<"Page title is required">>)
        ELSE Await(HttpPost(<<"/pages">>, CreatePagePayload(params))))

\* the core projection plus parent: response.data.parent
ProjectPage(r) ==
    LET core == ProjectCore(r) IN
    IF core.kind = "throw" THEN core
    ELSE Return(core.value @@ Field("parent", r.data, "parent"))

createPageThen(params, r) ==
    Rethrow(<<"Failed to create page: ">>,
        IF r.status # "ok" THEN Throw(<<AxiosMessage(r)>>) ELSE ProjectPage(r))

\* an update that posts the argument object as it came, id included
UpdatePagePayloadWhole(params) == params

UpdatePagePayload(params) ==
    SpreadStr(params, "title")
    @@ SpreadStr(params, "content")
    @@ SpreadStr(params, "excerpt")
    @@ SpreadStr(params, "status")
    @@ SpreadNum(params, "featured_media")
    @@ SpreadDefined(params, "parent")

updatePage(params) ==
    Await(HttpPost(<<"/pages/", IdStr(params)>>, UpdatePagePayload(params)))

updatePageThen(params, r) ==
    Rethrow(<<"Failed to update page ", IdStr(params), ": ">>,
        IF r.status # "ok" THEN Throw(<<AxiosMessage(r)>>) ELSE ProjectPage(r))

deletePage(params) ==
    Await(HttpDelete(<<"/pages/", IdStr(params)>>, [force |-> Force(params, FALSE)]))

deletePageThen(params, r) ==
    Rethrow(<<"Failed to delete page ", IdStr(params), ": ">>,
        IF r.status # "ok" THEN Throw(<<AxiosMessage(r)>>)
        ELSE IF BodyMissing(r) THEN Throw(<<TypeErr("id")>>)
        ELSE Return(("message" :> IF Force(params, FALSE)
                                  THEN "Page permanently deleted"
                                  ELSE "Page moved to trash")
                    @@ Field("id", r.data, "id")))

publishPage(params) ==
    Await(HttpPost(<<"/pages/", IdStr(params)>>, [status |-> "publish"]))

publishPageThen(params, r) ==
    Rethrow(<<"Failed to publish page ", IdStr(params), ": ">>,
        IF r.status # "ok" THEN Throw(<<AxiosMessage(r)>>) ELSE ProjectCore(r))

----------------------------------------------------------------------------
\* Media management.  A filename is the sequence of its characters.

UpperCase == <<"A", "B", "C", "D", "E", "F", "G", "H", "I", "J", "K", "L", "M",
               "N", "O", "P", "Q", "R", "S", "T", "U", "V", "W", "X", "Y", "Z">>
LowerCase == <<"a", "b", "c", "d", "e", "f", "g", "h", "i", "j", "k", "l", "m",
               "n", "o", "p", "q", "r", "s", "t", "u", "v", "w", "x", "y", "z">>

ToLowerChar(c) ==
    IF \E i \in DOMAIN UpperCase : UpperCase[i] = c
    THEN LowerCase[CHOOSE i \in DOMAIN UpperCase : UpperCase[i] = c]
    ELSE c

toLowerCase(s) == [i \in 1..Len(s) |-> ToLowerChar(s[i])]

\* filename.split(".").pop(): the characters after the last dot, the whole
\* name when it has no dot
LastDot(s) ==
    IF \E i \in 1..Len(s) : s[i] = "."
    THEN CHOOSE i \in 1..Len(s) : s[i] = "." /\ \A j \in (i + 1)..Len(s) : s[j] # "."
    ELSE 0

SplitPop(s) == SubSeq(s, LastDot(s) + 1, Len(s))

mimeTypes ==
    (<<"j", "p", "g">> :> "image/jpeg")
    @@ (<<"j", "p", "e", "g">> :> "image/jpeg")
    @@ (<<"p", "n", "g">> :> "image/png")
    @@ (<<"g", "i", "f">> :> "image/gif")
    @@ (<<"w", "e", "b", "p">> :> "image/webp")
    @@ (<<"s", "v", "g">> :> "image/svg+xml")
    @@ (<<"p", "d", "f">> :> "application/pdf")
    @@ (<<"m", "p", "4">> :> "video/mp4")
    @@ (<<"m", "p", "3">> :> "audio/mpeg")
    @@ (<<"w", "a", "v">> :> "audio/wav")

\* mimeTypes is an object literal: a key it does not define is looked up on
\* Object.prototype, where "constructor" names the (truthy) function Object
InheritedKeys == {<<"c", "o", "n", "s", "t", "r", "u", "c", "t", "o", "r">>}

getMimeType(filename) ==
    LET ext == toLowerCase(SplitPop(filename)) IN
    IF ext \in DOMAIN mimeTypes THEN mimeTypes[ext]
    ELSE IF ext \in InheritedKeys THEN "[Function: Object]"
    ELSE "application/octet-stream"

\* Buffer.from(data, "base64"): the bytes the text encodes
Base64Table == ("QUJD" :> <<65, 66, 67>>) @@ ("aGk=" :> <<104, 105>>)
Base64Decode(data) == IF data \in DOMAIN Base64Table THEN Base64Table[data] ELSE <<>>

\* truthiness of params.filename
TruthyName(o) == Has(o, "filename") /\ o.filename # <<>>

UploadHeaders(params) ==
    ("Content-Type" :> getMimeType(params.filename))
    @@ ("Content-Disposition" :> <<"attachment; filename=\"", params.filename, "\"">>)

\* an upload that does not look at params.data before sending it
uploadMediaAnyData(hasParams, params) ==
    Rethrow(<<"Failed to upload media: ">>,
        IF ~hasParams THEN Throw(<<TypeErr("filename")>>)
        ELSE IF ~TruthyName(params) THEN Throw(<<"Filename is required">>)
        ELSE Await(HttpPostRaw(<<"/media">>,
                               IF Has(params, "data") THEN Base64Decode(params.data)
                               ELSE <<>>,
                               UploadHeaders(params))))

uploadMedia(hasParams, params) ==
    Rethrow(<<"Failed to upload media: ">>,
        IF ~hasParams THEN Throw(<<TypeErr("filename")>>)
        ELSE IF ~TruthyName(params) THEN Throw(<<"Filename is required">>)
        ELSE IF ~TruthyStr(params, "data") THEN Throw(<<"File data (base64) is required">>)
        ELSE Await(HttpPostRaw(<<"/media">>, Base64Decode(params.data),
                               UploadHeaders(params))))

MetaUpdates(params) ==
    SpreadStr(params, "title") @@ SpreadStr(params, "alt_text")
    @@ SpreadStr(params, "caption") @@ SpreadStr(params, "description")

\* what uploadMedia returns from the answer to the binary POST
UploadResult(r) ==
    IF BodyMissing(r) THEN Throw(<<TypeErr("id")>>)
    ELSE IF ~Has(r.data, "title") THEN Throw(<<TypeErr("rendered")>>)
    ELSE Return(Field("id", r.data, "id")
                @@ Field("title", r.data.title, "rendered")
                @@ Field("source_url", r.data, "source_url")
                @@ Field("media_type", r.data, "media_type")
                @@ Field("mime_type", r.data, "mime_type")
                @@ Field("link", r.data, "link"))

\* an upload that posts the metadata whatever became of the binary POST
uploadMediaThenEager(params, r) ==
    Rethrow(<<"Failed to upload media: ">>,
        IF DOMAIN MetaUpdates(params) # {}
        THEN Await(HttpPost(<<"/media/", IdStr(r.data)>>, MetaUpdates(params)))
        ELSE IF r.status # "ok" THEN Throw(<<AxiosMessage(r)>>)
        ELSE UploadResult(r))

\* after the binary POST: the metadata POST when there is metadata to set
uploadMediaThen(params, r) ==
    Rethrow(<<"Failed to upload media: ">>,
        IF r.status # "ok" THEN Throw(<<AxiosMessage(r)>>)
        ELSE IF DOMAIN MetaUpdates(params) # {}
        THEN IF BodyMissing(r) THEN Throw(<<TypeErr("id")>>)
             ELSE Await(HttpPost(<<"/media/", IdStr(r.data)>>, MetaUpdates(params)))
        ELSE UploadResult(r))

\* a metadata POST whose failure is swallowed
uploadMediaDoneSwallowed(params, first, r) ==
    Rethrow(<<"Failed to upload media: ">>, UploadResult(first))

\* after the metadata POST: first is the answer to the binary POST
uploadMediaDone(params, first, r) ==
    Rethrow(<<"Failed to upload media: ">>,
        IF r.status # "ok" THEN Throw(<<AxiosMessage(r)>>) ELSE UploadResult(first))

getMedia(params) == Await(HttpGet(<<"/media/", IdStr(params)>>, <<>>))

\* response.data.caption?.rendered
OptChain(f, src, g) ==
    IF Has(src, g) THEN Field(f, src[g], "rendered") ELSE <<>>

getMediaThen(params, r) ==
    Rethrow(<<"Failed to fetch media ", IdStr(params), ": ">>,
        IF r.status # "ok" THEN Throw(<<AxiosMessage(r)>>)
        ELSE IF BodyMissing(r) THEN Throw(<<TypeErr("id")>>)
        ELSE IF ~Has(r.data, "title") THEN Throw(<<TypeErr("rendered")>>)
        ELSE Return(Field("id", r.data, "id")
                    @@ Field("title", r.data.title, "rendered")
                    @@ Field("source_url", r.data, "source_url")
                    @@ Field("media_type", r.data, "media_type")
                    @@ Field("mime_type", r.data, "mime_type")
                    @@ Field("alt_text", r.data, "alt_text")
                    @@ OptChain("caption", r.data, "caption")
                    @@ OptChain("description", r.data, "description")
                    @@ Field("media_details", r.data, "media_details")
                    @@ Field("link", r.data, "link")))

MediaQuery(params) ==
    ("per_page" :> PerPage(params))
    @@ ("page" :> OrNum(params, "page", 1))
    @@ ("orderby" :> OrStr(params, "orderby", "date"))
    @@ ("order" :> OrStr(params, "order", "desc"))
    @@ SpreadStr(params, "search")
    @@ SpreadStr(params, "media_type")
    @@ SpreadStr(params, "mime_type")

listMedia(params) == Await(HttpGet(<<"/media">>, MediaQuery(params)))

MediaItem(item) ==
    Field("id", item, "id") @@ Field("title", item.title, "rendered")
    @@ Field("source_url", item, "source_url")
    @@ Field("media_type", item, "media_type")
    @@ Field("mime_type", item, "mime_type") @@ Field("date", item, "date")

listMediaThen(params, r) ==
    Rethrow(<<"Failed to list media: ">>,
        IF r.status # "ok" THEN Throw(<<AxiosMessage(r)>>)
        ELSE LET items == MapData(r) IN
             IF items.kind = "throw" THEN items
             ELSE Return(("media" :> [i \in 1..Len(items.value) |->
                                        MediaItem(items.value[i])]) @@ Pagination(r)
                         @@ ("currentPage" :> MediaQuery(params).page)))

deleteMedia(params) ==
    Await(HttpDelete(<<"/media/", IdStr(params)>>, [force |-> Force(params, TRUE)]))

deleteMediaThen(params, r) ==
    Rethrow(<<"Failed to delete media ", IdStr(params), ": ">>,
        IF r.status # "ok" THEN Throw(<<AxiosMessage(r)>>)
        ELSE IF BodyMissing(r) THEN Throw(<<TypeErr("id")>>)
        ELSE Return(("message" :> "Media permanently deleted")
                    @@ Field("id", r.data, "id")))

----------------------------------------------------------------------------
\* Method table of the adapter

Start(method, hasParams, params) ==
    LET p == IF hasParams THEN params ELSE <<>> IN   \* (params = {})
    CASE method = "getPosts" -> getPosts(p)
      [] method = "getPost" -> getPost(params)
      [] method = "createPost" -> createPost(hasParams, params)
      [] method = "updatePost" -> updatePost(params)
      [] method = "deletePost" -> deletePost(params)
      [] method = "getCategories" -> getCategories(p)
      [] method = "getTags" -> getTags(p)
      [] method = "publishPost" -> publishPost(params)
      [] method = "getSiteInfo" -> getSiteInfo
      [] method = "searchSite" -> searchSite(hasParams, params)
      [] method = "uploadMedia" -> uploadMedia(hasParams, params)
      [] method = "getMedia" -> getMedia(params)
      [] method = "listMedia" -> listMedia(p)
      [] method = "deleteMedia" -> deleteMedia(params)
      [] method = "getPages" -> getPages(p)
      [] method = "getPage" -> getPage(params)
      [] method = "createPage" -> createPage(hasParams, params)
      [] method = "updatePage" -> updatePage(params)
      [] method = "deletePage" -> deletePage(params)
      [] method = "publishPage" -> publishPage(params)

\* the method resumed with the answer r to its n-th request
Then(method, hasParams, params, n, first, r) ==
    LET p == IF hasParams THEN params ELSE <<>> IN
    CASE method = "getPosts" -> getPostsThen(p, r)
      [] method = "getPost" -> getPostThen(params, r)
      [] method = "createPost" -> createPostThen(params, r)
      [] method = "updatePost" -> updatePostThen(params, r)
      [] method = "deletePost" -> deletePostThen(params, r)
      [] method = "getCategories" -> getCategoriesThen(p, r)
      [] method = "getTags" -> getTagsThen(p, r)
      [] method = "publishPost" -> publishPostThen(params, r)
      [] method = "getSiteInfo" -> getSiteInfoThen(r)
      [] method = "searchSite" -> searchSiteThen(params, r)
      [] method = "uploadMedia" ->
           IF n = 1 THEN uploadMediaThen(params, r)
           ELSE uploadMediaDone(params, first, r)
      [] method = "getMedia" -> getMediaThen(params, r)
      [] method = "listMedia" -> listMediaThen(p, r)
      [] method = "deleteMedia" -> deleteMediaThen(params, r)
      [] method = "getPages" -> getPagesThen(p, r)
      [] method = "getPage" -> getPageThen(params, r)
      [] method = "createPage" -> createPageThen(params, r)
      [] method = "updatePage" -> updatePageThen(params, r)
      [] method = "deletePage" -> deletePageThen(params, r)
      [] method = "publishPage" -> publishPageThen(params, r)

----------------------------------------------------------------------------
\* The call-tool handler of the router

\* the cases of the switch and the adapter method each one calls
\* a switch that lacks the last media case
ToolMethodWithoutDelete ==
    ("get_posts" :> "getPosts") @@ ("get_post" :> "getPost")
    @@ ("create_post" :> "createPost") @@ ("update_post" :> "updatePost")
    @@ ("delete_post" :> "deletePost") @@ ("get_categories" :> "getCategories")
    @@ ("get_tags" :> "getTags") @@ ("publish_post" :> "publishPost")
    @@ ("get_site_info" :> "getSiteInfo") @@ ("search_site" :> "searchSite")
    @@ ("upload_media" :> "uploadMedia") @@ ("get_media" :> "getMedia")
    @@ ("list_media" :> "listMedia")

\* the cases of the switch and the adapter method each one calls
ToolMethod ==
    ("get_posts" :> "getPosts") @@ ("get_post" :> "getPost")
    @@ ("create_post" :> "createPost") @@ ("update_post" :> "updatePost")
    @@ ("delete_post" :> "deletePost") @@ ("get_categories" :> "getCategories")
    @@ ("get_tags" :> "getTags") @@ ("publish_post" :> "publishPost")
    @@ ("get_site_info" :> "getSiteInfo") @@ ("search_site" :> "searchSite")
    @@ ("upload_media" :> "uploadMedia") @@ ("get_media" :> "getMedia")
    @@ ("list_media" :> "listMedia") @@ ("delete_media" :> "deleteMedia")

\* the cases that read (args as any).id before calling the adapter
IdTools == {"get_post", "update_post", "delete_post", "publish_post",
            "get_media", "delete_media"}

\* what the handler gives back: kind "envelope" is a returned result,
\* "escaped" an exception that left the handler
Out(k, e, t, v, d) ==
    [kind |-> k, isError |-> e, text |-> t, value |-> v, defined |-> d]

NoOut == Out("none", FALSE, <<>>, <<>>, FALSE)

\* { content: [{ type: "text", text: JSON.stringify(value, null, 2) }] }
Success(step) == Out("envelope", FALSE, <<>>, step.value, step.defined)

\* a default case that leaves out isError
UnknownToolUnflagged(name) ==
    Out("envelope", FALSE, <<"Unknown tool: ", name>>, <<>>, FALSE)

\* the default case of the switch
UnknownTool(name) == Out("envelope", TRUE, <<"Unknown tool: ", name>>, <<>>, FALSE)

\* a catch that converts only the errors the adapter raised
RouterCatchAdapterOnly(msg) ==
    IF Len(msg) > 1
    THEN Out("envelope", TRUE, <<"Error: ">> \o msg, <<>>, FALSE)
    ELSE Out("escaped", TRUE, msg, <<>>, FALSE)

\* the catch of the handler
RouterCatch(msg) == Out("envelope", TRUE, <<"Error: ">> \o msg, <<>>, FALSE)

\* the step the handler takes on entry
CallToolStart(name, hasArgs, args) ==
    IF name \notin DOMAIN ToolMethod
    THEN [kind |-> "respond", out |-> UnknownTool(name)]
    ELSE IF name \in IdTools /\ ~hasArgs THEN Throw(<<TypeErr("id")>>)
    ELSE Start(ToolMethod[name], hasArgs, args)

\* a finished step of the handler as its result
Settle(step) ==
    CASE step.kind = "respond" -> step.out
      [] step.kind = "throw" -> RouterCatch(step.msg)
      [] step.kind = "return" -> Success(step)

\* a finished step of a method called without the router
SettleDirect(step) ==
    IF step.kind = "throw"
    THEN Out("threw", TRUE, step.msg, <<>>, FALSE)
    ELSE Out("returned", FALSE, <<>>, step.value, step.defined)

----------------------------------------------------------------------------
\* The calls a host can make: tool names and argument objects

Absent(d) == {<<FALSE, d>>}

IdOpt == Absent(0) \cup Some(1..MaxId)
PerPageOpt == Absent(0) \cup Some({-5, 0, 1, 100, 101, 500})
PageOpt == Absent(0) \cup Some({0, 3})
StatusOpt == Absent("") \cup Some({"", "draft", "publish"})
ForceOpt == Absent(FALSE) \cup Some(BOOLEAN)
StrOpt(v) == Absent("") \cup Some({"", v})
OneOpt(v) == Absent(v) \cup Some({v})

PostsArgs ==
    {Opt("per_page", pp) @@ Opt("page", pg) @@ Opt("status", st) :
        pp \in PerPageOpt, pg \in PageOpt, st \in OneOpt("draft")}
    \cup {Opt("search", q) @@ Opt("orderby", ob) @@ Opt("order", o) @@ Opt("status", st) :
        q \in StrOpt("q"), ob \in OneOpt("title"), o \in OneOpt("asc"),
        st \in Some({"", "publish"})}

TermsArgs == {Opt("per_page", pp) @@ Opt("search", q) :
                pp \in PerPageOpt, q \in StrOpt("q")}

SearchArgs ==
    {Opt("search", q) @@ Opt("per_page", pp) @@ Opt("page", pg) :
        q \in StrOpt("q"), pp \in PerPageOpt, pg \in OneOpt(3)}
    \cup {("search" :> "q") @@ Opt("type", t) @@ Opt("subtype", st) :
        t \in StrOpt("post"), st \in OneOpt("page")}

MediaListArgs ==
    {Opt("per_page", pp) @@ Opt("page", pg) : pp \in PerPageOpt, pg \in PageOpt}
    \cup {Opt("search", q) @@ Opt("media_type", mt) @@ Opt("mime_type", mm)
          @@ Opt("orderby", ob) @@ Opt("order", o) :
        q \in OneOpt("q"), mt \in StrOpt("image"), mm \in OneOpt("image/png"),
        ob \in OneOpt("title"), o \in OneOpt("asc")}

PagesArgs ==
    {Opt("per_page", pp) @@ Opt("status", st) @@ Opt("parent", pa) :
        pp \in PerPageOpt, st \in OneOpt("draft"), pa \in Absent(0) \cup Some({0, 7})}

IdArgs == {Opt("id", i) : i \in IdOpt}

ContentArgs ==
    {Opt("title", t) @@ Opt("content", c) @@ Opt("status", st) :
        t \in StrOpt("Hi"), c \in StrOpt("New"), st \in StatusOpt}

ExtraPostArgs ==
    {("title" :> "Hi") @@ Opt("excerpt", e) @@ Opt("featured_media", fm)
     @@ Opt("categories", cs) @@ Opt("tags", ts) :
        e \in OneOpt("E"), fm \in Absent(0) \cup Some({0, 7}),
        cs \in Absent(<<>>) \cup Some({<<>>, <<3>>}), ts \in OneOpt(<<4>>)}

ExtraPageArgs ==
    {("title" :> "Hi") @@ Opt("excerpt", e) @@ Opt("featured_media", fm)
     @@ Opt("parent", pa) :
        e \in OneOpt("E"), fm \in Absent(0) \cup Some({0, 7}),
        pa \in Absent(0) \cup Some({0, 7})}

CreatePostArgs == ContentArgs \cup ExtraPostArgs
CreatePageArgs == ContentArgs \cup ExtraPageArgs

UpdatePostArgs ==
    {Opt("id", i) @@ Opt("status", st) : i \in IdOpt, st \in StatusOpt}
    \cup {("id" :> 1) @@ a : a \in CreatePostArgs}

UpdatePageArgs ==
    {Opt("id", i) @@ Opt("status", st) : i \in IdOpt, st \in StatusOpt}
    \cup {("id" :> 1) @@ a : a \in CreatePageArgs}

DeleteArgs == {Opt("id", i) @@ Opt("force", f) : i \in IdOpt, f \in ForceOpt}

Filenames == {<<>>,
              <<"p", "h", "o", "t", "o", ".", "j", "p", "g">>,
              <<"a", ".", "P", "N", "G">>,
              <<"n", "o", "t", "e", "s">>,
              <<"p", "n", "g">>,
              <<"a", ".", "c", "o", "n", "s", "t", "r", "u", "c", "t", "o", "r">>}

UploadArgs ==
    {Opt("filename", fn) @@ Opt("data", d) @@ Opt("title", t) @@ Opt("alt_text", a)
     @@ Opt("caption", c) @@ Opt("description", ds) :
        fn \in Absent(<<>>) \cup Some(Filenames), d \in StrOpt("QUJD"),
        t \in OneOpt("T"), a \in StrOpt("x"), c \in OneOpt("c"), ds \in OneOpt("d")}

\* names no case of the switch matches
UnroutedNames == {"nonexistent_tool", "get_pages", "get_page", "create_page",
                  "update_page", "delete_page", "publish_page"}

\* the catalogue the list-tools handler returns: the names of `tools`, in
\* order
tools == <<"get_posts", "get_post", "create_post", "update_post", "delete_post",
           "get_categories", "get_tags", "publish_post", "get_site_info",
           "search_site", "upload_media", "get_media", "list_media",
           "delete_media">>

Catalogued == {tools[i] : i \in DOMAIN tools}

\* the public methods of class WordPressClient
WordPressClientMethods ==
    {"getPosts", "getPost", "createPost", "updatePost", "deletePost",
     "getCategories", "getTags", "publishPost", "getPages", "getPage",
     "createPage", "updatePage", "deletePage", "publishPage", "uploadMedia",
     "getMedia", "listMedia", "deleteMedia", "getSiteInfo", "searchSite"}

ToolNames == DOMAIN ToolMethod \cup Catalogued \cup UnroutedNames

ArgsOf(name) ==
    CASE name = "get_posts" -> PostsArgs
      [] name \in {"get_post", "publish_post", "get_media"} -> IdArgs
      [] name = "create_post" -> CreatePostArgs
      [] name = "update_post" -> UpdatePostArgs
      [] name \in {"delete_post", "delete_media"} -> DeleteArgs
      [] name \in {"get_categories", "get_tags"} -> TermsArgs
      [] name = "get_site_info" -> {<<>>}
      [] name = "search_site" -> SearchArgs
      [] name = "upload_media" -> UploadArgs
      [] name = "list_media" -> MediaListArgs
      [] name = "get_pages" -> PagesArgs
      [] name = "create_page" -> CreatePageArgs
      [] name = "update_page" -> UpdatePageArgs
      [] name = "delete_page" -> DeleteArgs
      [] OTHER -> IdArgs

\* the page methods of the adapter, which no tool reaches
PageMethods == {"getPages", "getPage", "createPage", "updatePage", "deletePage",
                "publishPage"}

ParamsOf(method) ==
    CASE method = "getPages" -> PagesArgs
      [] method \in {"getPage", "publishPage"} -> IdArgs
      [] method = "createPage" -> CreatePageArgs
      [] method = "updatePage" -> UpdatePageArgs
      [] method = "deletePage" -> DeleteArgs

----------------------------------------------------------------------------
\* State and actions

NoResponse == Response("none", 0, "null", <<>>, <<>>)

IdleCall ==
    [pc |-> "idle", via |-> "none", name |-> "", method |-> "",
     hasArgs |-> FALSE, args |-> <<>>, requests |-> <<>>,
     first |-> NoResponse, out |-> NoOut]

\* a request as the call's log keeps it: the answer it got and whether the
\* remote carried it out
Sent(req) == [req |-> req, status |-> "pending", body |-> "null", applied |-> FALSE]

\* the call after a step of its method
After(call, step) ==
    IF step.kind = "await"
    THEN [call EXCEPT !.pc = "awaiting", !.requests = Append(@, Sent(step.req))]
    ELSE [call EXCEPT !.pc = "done",
                      !.out = IF call.via = "router" THEN Settle(step)
                              ELSE SettleDirect(step)]

\* new WordPressClient(siteUrl, username, password): the base URL and the
\* Authorization value (the pieces that are base64-encoded) of the axios
\* instance
constructor(siteUrl, username, password) ==
    [baseURL |-> siteUrl \o "/wp-json/wp/v2",
     Authorization |-> <<"Basic ", username, ":", password>>,
     timeout |-> TimeoutMs]

Init ==
    /\ calls = [c \in Slots |-> IdleCall]
    /\ remotePosts = (1 :> SeedPost)
    /\ client = constructor("https://example.test", "user", "app-password")

\* the host sends a call-tool request
CallTool(c) ==
    /\ calls[c].pc = "idle"
    /\ \E name \in ToolNames :
       \E hasArgs \in BOOLEAN :
       \E args \in (IF hasArgs THEN ArgsOf(name) ELSE {<<>>}) :
          LET call == [IdleCall EXCEPT !.via = "router", !.name = name,
                         !.method = IF name \in DOMAIN ToolMethod
                                    THEN ToolMethod[name] ELSE "",
                         !.hasArgs = hasArgs, !.args = args]
          IN calls' = [calls EXCEPT ![c] = After(call, CallToolStart(name, hasArgs, args))]
    /\ UNCHANGED <<remotePosts, client>>

\* a page method of the adapter is called
CallPageMethod(c) ==
    /\ calls[c].pc = "idle"
    /\ \E method \in PageMethods :
       \E hasArgs \in BOOLEAN :
       \E args \in (IF hasArgs THEN ParamsOf(method) ELSE {<<>>}) :
          LET call == [IdleCall EXCEPT !.via = "adapter", !.name = method,
                         !.method = method, !.hasArgs = hasArgs, !.args = args]
          IN calls' = [calls EXCEPT ![c] = After(call, Start(method, hasArgs, args))]
    /\ UNCHANGED <<remotePosts, client>>

\* the pending request of a call is answered (or times out, or the
\* connection fails), and the method runs on to its next await or its end
Respond(c) ==
    LET call == calls[c]
        n == Len(call.requests)
        req == call.requests[n].req
    IN
    /\ call.pc = "awaiting"
    /\ \E r \in Responses(req, remotePosts) :
       \E applied \in BOOLEAN :
          /\ r.status = "ok" => applied
          /\ r.status \in {"http", "network"} => ~applied
          /\ r.status = "timeout" /\ applied => Successes(req, remotePosts) # {}
          /\ LET logged == [call EXCEPT
                              !.requests[n].status = r.status,
                              !.requests[n].body = r.body,
                              !.requests[n].applied = applied,
                              !.first = IF n = 1 THEN r ELSE @]
             IN calls' = [calls EXCEPT ![c] =
                            After(logged, Then(call.method, call.hasArgs, call.args,
                                               n, call.first, r))]
          /\ remotePosts' = IF applied THEN Apply(req, remotePosts) ELSE remotePosts
    /\ UNCHANGED client

\* a handler whose return clears a record that all calls share
ReleaseShared(c) ==
    /\ calls[c].pc = "done"
    /\ calls' = [d \in Slots |-> IdleCall]
    /\ UNCHANGED <<remotePosts, client>>

\* the caller has taken the result; nothing of the call is kept
Release(c) ==
    /\ calls[c].pc = "done"
    /\ calls' = [calls EXCEPT ![c] = IdleCall]
    /\ UNCHANGED <<remotePosts, client>>

Next == \E c \in {1} : CallTool(c) \/ CallPageMethod(c) \/ Respond(c) \/ Release(c)

Spec == Init /\ [][Next]_vars

\* calls the host has in flight at the same time: the handler is async, so a
\* second request may enter while the first awaits its answer
ConcurrentCalls ==
    {<<"get_post", TRUE, ("id" :> 1)>>,
     <<"get_post", FALSE, <<>>>>,
     <<"get_posts", TRUE, <<>>>>,
     <<"create_post", TRUE, ("title" :> "Hi")>>,
     <<"update_post", TRUE, ("id" :> 1) @@ ("status" :> "draft")>>,
     <<"delete_post", TRUE, ("id" :> 1) @@ ("force" :> TRUE)>>,
     <<"upload_media", TRUE, ("filename" :> <<"a", ".", "P", "N", "G">>)
                             @@ ("data" :> "QUJD") @@ ("alt_text" :> "x")>>,
     <<"nonexistent_tool", TRUE, <<>>>>}

\* the host sends a call-tool request while other calls may be in flight
CallToolConcurrent(c) ==
    /\ calls[c].pc = "idle"
    /\ \E k \in ConcurrentCalls :
          LET call == [IdleCall EXCEPT !.via = "router", !.name = k[1],
                         !.method = IF k[1] \in DOMAIN ToolMethod
                                    THEN ToolMethod[k[1]] ELSE "",
                         !.hasArgs = k[2], !.args = k[3]]
          IN calls' = [calls EXCEPT ![c] = After(call, CallToolStart(k[1], k[2], k[3]))]
    /\ UNCHANGED <<remotePosts, client>>

NextConcurrent ==
    \E c \in Slots : CallToolConcurrent(c) \/ Respond(c) \/ Release(c)

SpecConcurrent == Init /\ [][NextConcurrent]_vars

\* Startup and construction.  Before it, client is the empty object.

requiredEnvVars == <<"WORDPRESS_URL", "WORDPRESS_USERNAME", "WORDPRESS_PASSWORD">>

\* process.env: each required variable set, set to "", or not set
ProcessEnvs ==
    {Opt("WORDPRESS_URL", u) @@ Opt("WORDPRESS_USERNAME", n)
     @@ Opt("WORDPRESS_PASSWORD", p) :
        u \in StrOpt("https://example.test"), n \in StrOpt("user"),
        p \in StrOpt("app-password")}

\* `${x}` of a value that may be undefined
TemplateStr(o, f) == IF Has(o, f) THEN o[f] ELSE "undefined"

InitStartup ==
    /\ calls = [c \in Slots |-> IdleCall]
    /\ remotePosts = (1 :> SeedPost)
    /\ client = <<>>

Constructed == DOMAIN client = {"baseURL", "Authorization", "timeout"}

\* the module body of index.ts: the check of the environment, then the
\* construction of the client
Startup ==
    /\ DOMAIN client = {}
    /\ \E env \in ProcessEnvs :
          LET missing == {i \in DOMAIN requiredEnvVars :
                            ~TruthyStr(env, requiredEnvVars[i])}
          IN client' =
               IF missing # {}
               THEN [threw |-> <<"Missing required environment variable: ",
                                 requiredEnvVars[CHOOSE i \in missing :
                                                    \A j \in missing : i <= j]>>]
               ELSE constructor(env.WORDPRESS_URL, env.WORDPRESS_USERNAME,
                                env.WORDPRESS_PASSWORD)
    /\ UNCHANGED <<calls, remotePosts>>

\* the exported class is constructed by a caller of its own
Construct ==
    /\ DOMAIN client = {}
    /\ \E env \in ProcessEnvs :
          client' = constructor(TemplateStr(env, "WORDPRESS_URL"),
                                TemplateStr(env, "WORDPRESS_USERNAME"),
                                TemplateStr(env, "WORDPRESS_PASSWORD"))
    /\ UNCHANGED <<calls, remotePosts>>

\* the constructed client serves calls
Serve ==
    /\ Constructed
    /\ CallToolConcurrent(1) \/ Respond(1) \/ Release(1)

NextStartup == Startup \/ Construct \/ Serve

SpecStartup == InitStartup /\ [][NextStartup]_vars

\* the timer of the pending request of call c runs out (timeout: 30000)
TimeOut(c) ==
    /\ Respond(c)
    /\ calls'[c].requests[Len(calls[c].requests)].status = "timeout"

\* the remote may stay silent for ever; the timer of a pending request does
\* run out unless the request is answered first
SpecLive == SpecConcurrent /\ \A c \in Slots : WF_vars(TimeOut(c))

----------------------------------------------------------------------------
\* Properties

Started(c) == calls[c].pc # "idle"
Done(c) == calls[c].pc = "done"
ViaRouter(c) == calls[c].via = "router"
Failed(c) == Done(c) /\ calls[c].out.isError
Last(seq) == seq[Len(seq)]

\* C1: every call of the call-tool handler, whatever the name, the argument
\* object (absent included) and the answers of the remote, ends with a result
\* envelope; no exception leaves the handler.
C1_AlwaysEnvelope ==
    \A c \in Slots :
        ViaRouter(c) =>
            /\ calls[c].out.kind \in {"none", "envelope"}
            /\ Done(c) => calls[c].out.kind = "envelope"

\* a call without an argument object to a tool that reads args.id has ended
C1_Witness ==
    \E c \in Slots :
        /\ ViaRouter(c) /\ Done(c)
        /\ calls[c].name \in IdTools /\ ~calls[c].hasArgs
        /\ calls[c].out.kind = "envelope" /\ calls[c].out.isError

\* C2: a name no case of the switch matches ends at once with a failure
\* envelope whose message is the routing message naming the tool (with or
\* without the "Error: " prefix), and no request is sent.
C2_UnknownTool ==
    \A c \in Slots :
        ViaRouter(c) /\ Started(c) /\ calls[c].name \notin DOMAIN ToolMethod =>
            /\ Done(c)
            /\ calls[c].out.kind = "envelope"
            /\ calls[c].out.isError
            /\ calls[c].out.text \in {<<"Unknown tool: ", calls[c].name>>,
                                      <<"Error: ", "Unknown tool: ", calls[c].name>>}
            /\ calls[c].requests = <<>>

C2_Witness ==
    \E c \in Slots :
        /\ ViaRouter(c) /\ Done(c)
        /\ calls[c].name = "nonexistent_tool"
        /\ calls[c].out.isError
        /\ calls[c].requests = <<>>

\* C3: every failure envelope of the router has a message that begins with
\* "Error: ".
C3_ErrorPrefix ==
    \A c \in Slots :
        ViaRouter(c) /\ Failed(c) => calls[c].out.text[1] = "Error: "

\* the list methods and the requests they send
ListMethods == {"getPosts", "getCategories", "getTags", "listMedia",
                "searchSite", "getPages"}

\* C4: the per_page a list method sends lies in 1..100: a requested value
\* above 100 is sent as 100, a requested 0 or negative value as 10.
C4_PerPageClamped ==
    \A c \in Slots :
        calls[c].method \in ListMethods /\ calls[c].requests # <<>> =>
            LET sent == calls[c].requests[1].req.params.per_page
                asked == calls[c].args
            IN /\ sent \in 1..MaxPerPage
               /\ Has(asked, "per_page") /\ asked.per_page > MaxPerPage
                    => sent = MaxPerPage
               /\ Has(asked, "per_page") /\ asked.per_page <= 0
                    => sent = DefaultPerPage

\* C5: create_post and createPage with a missing or empty title fail, with
\* the title-required message when there is an argument object, and send no
\* request.
C5_TitleRequired ==
    \A c \in Slots :
        /\ calls[c].method \in {"createPost", "createPage"}
        /\ Started(c)
        /\ ~TruthyStr(calls[c].args, "title")
        => /\ Failed(c)
           /\ calls[c].requests = <<>>
           /\ calls[c].hasArgs =>
                Last(calls[c].out.text) \in {"Post title is required",
                                             "Page title is required"}

C5_Witness ==
    \E c \in Slots :
        /\ ViaRouter(c) /\ Done(c)
        /\ calls[c].name = "create_post"
        /\ calls[c].hasArgs /\ ~Has(calls[c].args, "title")
        /\ calls[c].out.isError
        /\ calls[c].requests = <<>>

\* C6: the create payload carries the caller's status when one was supplied
\* and "draft" otherwise; it is "publish" only when the caller supplied
\* publish.
C6_DraftDefault ==
    \A c \in Slots :
        calls[c].method \in {"createPost", "createPage"} /\ calls[c].requests # <<>> =>
            LET payload == calls[c].requests[1].req.data
                args == calls[c].args
            IN /\ payload.status = IF TruthyStr(args, "status")
                                   THEN args.status ELSE "draft"
               /\ payload.status = "publish" =>
                    Has(args, "status") /\ args.status = "publish"

C6_Witness ==
    \E c \in Slots :
        /\ calls[c].method = "createPost"
        /\ calls[c].requests # <<>>
        /\ ~Has(calls[c].args, "status")
        /\ calls[c].requests[1].req.data.status = "draft"

\* C7: whatever force the caller gives, the DELETE of a media item carries
\* force = true.
C7_MediaForce ==
    \A c \in Slots :
        calls[c].method = "deleteMedia" =>
            \A i \in DOMAIN calls[c].requests :
                calls[c].requests[i].req.params.force = TRUE

\* an upload call with a filename, data and at least one non-empty metadata
\* field
UploadWithMeta(c) ==
    /\ calls[c].method = "uploadMedia"
    /\ calls[c].hasArgs
    /\ TruthyName(calls[c].args)
    /\ TruthyStr(calls[c].args, "data")
    /\ DOMAIN MetaUpdates(calls[c].args) # {}

\* C8: such an upload sends the binary POST to /media first; once that POST
\* has created the media item it sends the metadata POST to the created item,
\* and nothing more; when the metadata POST fails the result is a failure,
\* although the binary POST succeeded.
C8_UploadTwoRequests ==
    \A c \in Slots :
        UploadWithMeta(c) =>
            LET reqs == calls[c].requests IN
            /\ Len(reqs) \in 1..2
            /\ reqs[1].req.method = "POST"
            /\ reqs[1].req.path = <<"/media">>
            /\ reqs[1].req.data = Base64Decode(calls[c].args.data)
            /\ reqs[1].status = "ok" /\ reqs[1].body = "json" =>
                 /\ Len(reqs) = 2
                 /\ reqs[2].req = HttpPost(<<"/media/", ToString(NewId)>>,
                                           MetaUpdates(calls[c].args))
            /\ Len(reqs) = 2 /\ reqs[2].status \in {"http", "network", "timeout"} =>
                 /\ reqs[1].status = "ok"
                 /\ Failed(c)
                 /\ calls[c].out.kind = "envelope"

C8_Witness ==
    \E c \in Slots :
        /\ UploadWithMeta(c) /\ ViaRouter(c) /\ Done(c)
        /\ DOMAIN calls[c].args = {"filename", "data", "alt_text"}
        /\ calls[c].args.alt_text = "x"
        /\ Len(calls[c].requests) = 2
        /\ calls[c].requests[1].status = "ok"
        /\ calls[c].requests[1].body = "json"
        /\ calls[c].requests[2].status = "http"
        /\ calls[c].out.isError

\* what get_post returns for post id from the remote as it stands
GetPostView(id) ==
    getPostThen(("id" :> id),
                Response("ok", 200, "json",
                         OkBody(HttpGet(<<"/posts/", ToString(id)>>, <<>>), remotePosts),
                         <<>>)).value

\* an update_post call with only an id and a status
StatusOnlyUpdate(c) ==
    /\ calls[c].method = "updatePost"
    /\ DOMAIN calls[c].args = {"id", "status"}
    /\ calls[c].args.status # ""

\* that call being answered by the remote and ending with a success
StatusOnlyUpdateSucceeds(c) ==
    /\ StatusOnlyUpdate(c)
    /\ calls[c].pc = "awaiting"
    /\ calls'[c].pc = "done"
    /\ ~calls'[c].out.isError

\* C9 as stated: the payload holds the status alone, and the title, content
\* and link that get_post read before the update are those of the update's
\* result.
C9_RoundTripWithContent ==
    [][\A c \in Slots :
         StatusOnlyUpdateSucceeds(c) =>
            LET before == GetPostView(calls[c].args.id)
                after == calls'[c].out.value
            IN /\ calls[c].requests[1].req.data = [status |-> calls[c].args.status]
               /\ Has(after, "title") /\ after.title = before.title.rendered
               /\ Has(after, "content") /\ after.content = before.content.rendered
               /\ Has(after, "link") /\ after.link = before.link]_vars

\* C9 as amended: the payload holds the status alone, the title and link that
\* get_post read before the update are those of the update's result, the
\* status of the result is the one asked for, and the result has no content.
C9_RoundTrip ==
    [][\A c \in Slots :
         StatusOnlyUpdateSucceeds(c) =>
            LET before == GetPostView(calls[c].args.id)
                after == calls'[c].out.value
            IN /\ calls[c].requests[1].req.data = [status |-> calls[c].args.status]
               /\ Has(after, "title") /\ after.title = before.title.rendered
               /\ Has(after, "link") /\ after.link = before.link
               /\ Has(after, "status") /\ after.status = calls[c].args.status
               /\ ~Has(after, "content")
               /\ remotePosts'[calls[c].args.id].content
                    = remotePosts[calls[c].args.id].content]_vars

C9_Witness ==
    \E c \in Slots :
        /\ StatusOnlyUpdate(c) /\ ViaRouter(c) /\ Done(c)
        /\ calls[c].args.status = "publish"
        /\ ~calls[c].out.isError
        /\ calls[c].out.value.title = "Old"
        /\ calls[c].out.value.status = "publish"

\* C10: a list method whose answer lacks x-wp-total or x-wp-totalpages still
\* succeeds, and its result then has no total, respectively no totalPages.
C10_MissingHeaders ==
    \A c \in Slots :
        /\ calls[c].method \in ListMethods
        /\ Done(c)
        /\ calls[c].first.status = "ok" /\ calls[c].first.body = "json"
        => /\ ~calls[c].out.isError
           /\ ~Has(calls[c].first.headers, "x-wp-total")
                => ~Has(calls[c].out.value, "total")
           /\ ~Has(calls[c].first.headers, "x-wp-totalpages")
                => ~Has(calls[c].out.value, "totalPages")

C10_Witness ==
    \E c \in Slots :
        /\ calls[c].method = "getPosts" /\ ViaRouter(c) /\ Done(c)
        /\ calls[c].first.status = "ok" /\ calls[c].first.body = "json"
        /\ calls[c].first.headers = <<>>
        /\ ~calls[c].out.isError
        /\ Has(calls[c].out.value, "posts")

\* the property under which each list method returns its items
ItemsKey ==
    [getPosts |-> "posts", getCategories |-> "categories", getTags |-> "tags",
     listMedia |-> "media", searchSite |-> "results", getPages |-> "pages"]

\* C11: a list method that succeeds on an answer carrying both pagination
\* headers returns its items together with total, totalPages and currentPage.
C11_ListPagination ==
    \A c \in Slots :
        /\ calls[c].method \in ListMethods
        /\ Done(c) /\ ~calls[c].out.isError
        /\ calls[c].first.status = "ok" /\ calls[c].first.body = "json"
        /\ DOMAIN calls[c].first.headers = {"x-wp-total", "x-wp-totalpages"}
        => {ItemsKey[calls[c].method], "total", "totalPages", "currentPage"}
              \subseteq DOMAIN calls[c].out.value

\* C12: the query of getPosts and getPages always carries a status, the
\* caller's when one was supplied and "publish" otherwise; a status other
\* than "publish" is sent only when the caller supplied it.
C12_StatusDefault ==
    \A c \in Slots :
        calls[c].method \in {"getPosts", "getPages"} /\ calls[c].requests # <<>> =>
            LET query == calls[c].requests[1].req.params
                args == calls[c].args
            IN /\ Has(query, "status")
               /\ query.status = IF TruthyStr(args, "status")
                                 THEN args.status ELSE "publish"
               /\ query.status # "publish" =>
                    Has(args, "status") /\ args.status = query.status

\* get_posts without a status has sent its query
C12_Witness ==
    \E c \in Slots :
        /\ ViaRouter(c) /\ calls[c].name = "get_posts"
        /\ ~Has(calls[c].args, "status")
        /\ calls[c].requests # <<>>
        /\ calls[c].requests[1].req.params.status = "publish"

DeleteNoun == [deletePost |-> "Post", deletePage |-> "Page"]

\* C13: deletePost and deletePage send a DELETE whose force is the caller's,
\* false when omitted; on success the message is "moved to trash" for force
\* false and "permanently deleted" for force true, with the id of the
\* resource; force = true is sent only when the caller supplied it.
C13_DeleteForce ==
    \A c \in Slots :
        calls[c].method \in {"deletePost", "deletePage"} /\ calls[c].requests # <<>> =>
            LET args == calls[c].args
                force == IF Has(args, "force") THEN args.force ELSE FALSE
                sent == calls[c].requests[1].req
                noun == DeleteNoun[calls[c].method]
            IN /\ Len(calls[c].requests) = 1
               /\ sent.method = "DELETE"
               /\ sent.params = [force |-> force]
               /\ sent.params.force => Has(args, "force") /\ args.force
               /\ Done(c) /\ ~calls[c].out.isError /\ calls[c].first.body = "json" =>
                    /\ calls[c].out.value.message =
                         (IF force THEN noun \o " permanently deleted"
                                   ELSE noun \o " moved to trash")
                    /\ Has(args, "id") =>
                         /\ Has(calls[c].out.value, "id")
                         /\ calls[c].out.value.id = args.id

\* the update method a publish method is a shorthand of
UpdateOf == [publishPost |-> "updatePost", publishPage |-> "updatePage"]

\* C14: publishPost(id) and publishPage(id) send the request that the update
\* method sends for {status: "publish"}, one POST whose payload is the status
\* alone, and return from the answer what the update method returns from it.
C14_PublishIsUpdate ==
    \A c \in Slots :
        calls[c].method \in DOMAIN UpdateOf /\ calls[c].requests # <<>> =>
            LET update == UpdateOf[calls[c].method]
                params == calls[c].args @@ ("status" :> "publish")
                sent == calls[c].requests[1].req
                first == calls[c].first
            IN /\ Len(calls[c].requests) = 1
               /\ sent.method = "POST"
               /\ sent.data = [status |-> "publish"]
               /\ Start(update, TRUE, params) = Await(sent)
               /\ Done(c) /\ ~calls[c].out.isError =>
                    Then(update, TRUE, params, 1, first, first)
                        = [kind |-> "return", value |-> calls[c].out.value,
                           defined |-> calls[c].out.defined]

\* C15: searchSite without a search term, and uploadMedia without a filename
\* or without data, fail and send no request; when there is an argument
\* object the failure carries the message of the check that refused it.
C15_RequiredInputs ==
    \A c \in Slots :
        LET args == calls[c].args IN
        /\ calls[c].method = "searchSite" /\ Started(c) /\ ~TruthyStr(args, "search")
           => /\ Failed(c)
              /\ calls[c].requests = <<>>
              /\ calls[c].hasArgs =>
                   calls[c].out.text = <<"Error: ", "Failed to search site: ",
                                         "Search term is required">>
        /\ calls[c].method = "uploadMedia" /\ Started(c)
           /\ (~TruthyName(args) \/ ~TruthyStr(args, "data"))
           => /\ Failed(c)
              /\ calls[c].requests = <<>>
              /\ calls[c].hasArgs =>
                   calls[c].out.text = <<"Error: ", "Failed to upload media: ",
                                         IF ~TruthyName(args)
                                         THEN "Filename is required"
                                         ELSE "File data (base64) is required">>

\* upload_media with a filename and empty data has been refused
C15_Witness ==
    \E c \in Slots :
        /\ ViaRouter(c) /\ Done(c) /\ calls[c].name = "upload_media"
        /\ TruthyName(calls[c].args)
        /\ Has(calls[c].args, "data") /\ calls[c].args.data = ""
        /\ calls[c].out.isError
        /\ calls[c].requests = <<>>

\* C16: a tool that needs an id, called without one, fails before any
\* request is sent.
C16_IdRequired ==
    \A c \in Slots :
        /\ ViaRouter(c) /\ Started(c)
        /\ calls[c].name \in IdTools
        /\ ~Has(calls[c].args, "id")
        => /\ calls[c].requests = <<>>
           /\ Failed(c)

\* the page tools and the adapter method each one is expected to reach
PageTools ==
    [get_page |-> "getPage", create_page |-> "createPage",
     update_page |-> "updatePage", delete_page |-> "deletePage",
     publish_page |-> "publishPage"]

\* C17: a page tool called with valid arguments reaches its adapter method
\* and sends its request; it does not end as an unknown tool.
C17_PageToolsRouted ==
    \A c \in Slots :
        /\ ViaRouter(c) /\ Started(c)
        /\ calls[c].name \in DOMAIN PageTools
        /\ calls[c].hasArgs
        /\ IF calls[c].name = "create_page" THEN TruthyStr(calls[c].args, "title")
           ELSE Has(calls[c].args, "id")
        => /\ calls[c].method = PageTools[calls[c].name]
           /\ calls[c].requests # <<>>
           /\ calls[c].out.text # <<"Unknown tool: ", calls[c].name>>

FailedRequest(q) == q.status \in {"http", "network", "timeout"}

\* C18: a call sends at most two requests, two only for an upload with
\* metadata; a call that ends well has sent exactly one (two for such an
\* upload) and a call that sent none has failed; a request that failed is the
\* last one of its call, and the call has ended with a failure.
C18_OneRequestNoRetry ==
    \A c \in Slots :
        Started(c) =>
            LET reqs == calls[c].requests
                n == Len(reqs)
            IN /\ n <= 2
               /\ n = 2 => UploadWithMeta(c)
               /\ Done(c) /\ n = 0 => calls[c].out.isError
               /\ Done(c) /\ ~calls[c].out.isError =>
                    n = IF UploadWithMeta(c) THEN 2 ELSE 1
               /\ \A i \in 1..n : FailedRequest(reqs[i]) => i = n /\ Failed(c)

\* get_post has failed on a connection error after its one request
C18_Witness ==
    \E c \in Slots :
        /\ ViaRouter(c) /\ Done(c) /\ calls[c].name = "get_post"
        /\ Len(calls[c].requests) = 1
        /\ calls[c].requests[1].status = "network"
        /\ calls[c].out.isError

\* a step of call c as its own name, arguments and answers determine it
OwnStep(c) ==
    LET call == calls[c]
        next == calls'[c]
        n == Len(call.requests)
    IN
    CASE call.pc = "idle" ->
           next = After([IdleCall EXCEPT !.via = "router", !.name = next.name,
                           !.method = next.method, !.hasArgs = next.hasArgs,
                           !.args = next.args],
                        CallToolStart(next.name, next.hasArgs, next.args))
      [] call.pc = "awaiting" ->
           \E r \in Responses(call.requests[n].req, remotePosts) :
              next = After([call EXCEPT !.requests[n].status = r.status,
                                        !.requests[n].body = r.body,
                                        !.requests[n].applied = next.requests[n].applied,
                                        !.first = IF n = 1 THEN r ELSE @],
                           Then(call.method, call.hasArgs, call.args, n, call.first, r))
      [] call.pc = "done" -> next = IdleCall

C20_EventuallyReturns ==
    /\ [](\A c \in Slots :
            calls[c].requests # <<>> /\ Last(calls[c].requests).status = "timeout"
                => Failed(c) /\ calls[c].out.kind = "envelope")
    /\ \A c \in Slots :
            (calls[c].pc = "awaiting")
                ~> (calls[c].pc = "done" /\ calls[c].out.kind = "envelope")

\* a call has ended on the timeout of its request
C20_Witness ==
    \E c \in Slots :
        /\ Done(c) /\ calls[c].name = "get_post"
        /\ Len(calls[c].requests) = 1
        /\ calls[c].requests[1].status = "timeout"
        /\ calls[c].out.kind = "envelope" /\ calls[c].out.isError
        /\ calls[c].out.text = <<"Error: ", "Failed to fetch post ", "1", ": ",
                                 "timeout of " \o ToString(TimeoutMs) \o "ms exceeded">>

\* C21: a constructed client never holds an empty or missing site URL,
\* username or password.
C21_NoEmptyCredential ==
    Constructed =>
        /\ client.baseURL \notin {"" \o "/wp-json/wp/v2", "undefined" \o "/wp-json/wp/v2"}
        /\ client.Authorization[2] \notin {"", "undefined"}
        /\ client.Authorization[4] \notin {"", "undefined"}

\* the operation each method names in the error it rethrows
OperationContext ==
    [getPosts |-> "Failed to fetch posts: ", getPost |-> "Failed to fetch post ",
     createPost |-> "Failed to create post: ", updatePost |-> "Failed to update post ",
     deletePost |-> "Failed to delete post ",
     getCategories |-> "Failed to fetch categories: ",
     getTags |-> "Failed to fetch tags: ", publishPost |-> "Failed to publish post ",
     getSiteInfo |-> "Failed to fetch site info: ",
     searchSite |-> "Failed to search site: ",
     uploadMedia |-> "Failed to upload media: ", getMedia |-> "Failed to fetch media ",
     listMedia |-> "Failed to list media: ", deleteMedia |-> "Failed to delete media ",
     getPages |-> "Failed to fetch pages: ", getPage |-> "Failed to fetch page ",
     createPage |-> "Failed to create page: ", updatePage |-> "Failed to update page ",
     deletePage |-> "Failed to delete page ", publishPage |-> "Failed to publish page "]

\* the methods whose request is addressed by id
IdMethods == {"getPost", "updatePost", "deletePost", "publishPost", "getMedia",
              "deleteMedia", "getPage", "updatePage", "deletePage", "publishPage"}

\* C22: a call whose request failed (non-2xx, connection error or timeout)
\* ends with a failure whose message names the operation, and the id for a
\* method addressed by id, before the message of the failed request.
C22_FailureContext ==
    \A c \in Slots :
        calls[c].requests # <<>> /\ FailedRequest(Last(calls[c].requests)) =>
            LET msg == IF ViaRouter(c) THEN Tail(calls[c].out.text)
                       ELSE calls[c].out.text
                method == calls[c].method
            IN /\ Failed(c)
               /\ ViaRouter(c) => calls[c].out.text[1] = "Error: "
               /\ Len(msg) >= 2
               /\ msg[1] = OperationContext[method]
               /\ method \in IdMethods =>
                    /\ Len(msg) = 4
                    /\ Has(calls[c].args, "id") => msg[2] = ToString(calls[c].args.id)
                    /\ msg[3] = ": "
               /\ Last(msg) \in {"Network Error",
                                 "timeout of " \o ToString(TimeoutMs) \o "ms exceeded",
                                 "Request failed with status code 404",
                                 "Request failed with status code 500"}

\* get_post of a post the remote does not have
C22_Witness ==
    \E c \in Slots :
        /\ ViaRouter(c) /\ Done(c) /\ calls[c].name = "get_post"
        /\ calls[c].args = ("id" :> 2)
        /\ calls[c].out.text = <<"Error: ", "Failed to fetch post ", "2", ": ",
                                 "Request failed with status code 404">>

\* C23: getPost, getPage and getMedia return a projection of the remote
\* representation, never the representation itself, and its title is the
\* rendered text of the remote title.
C23_SingleItemProjected ==
    \A c \in Slots :
        /\ calls[c].method \in {"getPost", "getPage", "getMedia"}
        /\ Done(c) /\ ~calls[c].out.isError
        /\ calls[c].first.body = "json"
        => /\ calls[c].out.value # calls[c].first.data
           /\ calls[c].out.value.title = calls[c].first.data.title.rendered

\* the query fields each list method gives a default
DefaultedFields ==
    [getPosts |-> {"per_page", "page", "status", "orderby", "order"},
     getPages |-> {"per_page", "page", "status", "orderby", "order"},
     getCategories |-> {"per_page"}, getTags |-> {"per_page"},
     listMedia |-> {"per_page", "page", "orderby", "order"},
     searchSite |-> {"per_page", "page"}]

\* the query fields each list method sends only when the caller gave them
OptionalFields ==
    [getPosts |-> {"search"}, getPages |-> {"search", "parent"},
     getCategories |-> {"search"}, getTags |-> {"search"},
     listMedia |-> {"search", "media_type", "mime_type"},
     searchSite |-> {"search", "type", "subtype"}]

\* the caller gave field f a value that is not empty
Supplied(args, f) ==
    IF f = "parent" THEN Has(args, f) ELSE TruthyStr(args, f)

\* C24: the query of a list method has the defaulted fields and those
\* optional fields the caller gave a non-empty value, with that value; an
\* optional field the caller did not give is not in the query.
C24_QueryFields ==
    \A c \in Slots :
        calls[c].method \in ListMethods /\ calls[c].requests # <<>> =>
            LET query == calls[c].requests[1].req.params
                args == calls[c].args
                optional == OptionalFields[calls[c].method]
            IN /\ DOMAIN query = DefaultedFields[calls[c].method]
                        \cup {f \in optional : Supplied(args, f)}
               /\ \A f \in optional \cap DOMAIN query : query[f] = args[f]

\* list_media given an empty media_type has sent a query without it
C24_Witness ==
    \E c \in Slots :
        /\ ViaRouter(c) /\ calls[c].name = "list_media"
        /\ Has(calls[c].args, "media_type") /\ calls[c].args.media_type = ""
        /\ calls[c].requests # <<>>
        /\ ~Has(calls[c].requests[1].req.params, "media_type")

\* the fields an update may carry
UpdatableFields ==
    [updatePost |-> {"title", "content", "excerpt", "status", "featured_media",
                     "categories", "tags"},
     updatePage |-> {"title", "content", "excerpt", "status", "featured_media",
                     "parent"}]

\* JavaScript truthiness of args.f: a non-empty string, a non-zero number,
\* any array
Truthy(args, f) ==
    IF f \in {"featured_media", "parent"} THEN TruthyNum(args, f)
    ELSE IF f \in {"categories", "tags"} THEN Has(args, f)
    ELSE TruthyStr(args, f)

\* what puts field f into the payload: truthiness, and for parent being given
InPayload(args, f) == IF f = "parent" THEN Has(args, f) ELSE Truthy(args, f)

\* C25 as stated: the payload of an update has a field exactly when the caller
\* gave a truthy value for it, and never the id.
C25_PayloadTruthyOnly ==
    \A c \in Slots :
        calls[c].method \in DOMAIN UpdatableFields /\ calls[c].requests # <<>> =>
            LET payload == calls[c].requests[1].req.data
                args == calls[c].args
            IN /\ DOMAIN payload = {f \in UpdatableFields[calls[c].method] :
                                        Truthy(args, f)}
               /\ \A f \in DOMAIN payload : payload[f] = args[f]
               /\ "id" \notin DOMAIN payload

\* C25: the payload of an update has a field exactly when the caller gave a
\* truthy value for it, or, for the parent of a page, any value (0 included);
\* each field carries the caller's value, and the id is never in the payload.
C25_PayloadFields ==
    \A c \in Slots :
        calls[c].method \in DOMAIN UpdatableFields /\ calls[c].requests # <<>> =>
            LET payload == calls[c].requests[1].req.data
                args == calls[c].args
            IN /\ DOMAIN payload = {f \in UpdatableFields[calls[c].method] :
                                        InPayload(args, f)}
               /\ \A f \in DOMAIN payload : payload[f] = args[f]
               /\ "id" \notin DOMAIN payload

\* update_post given an id and an empty title has sent a payload without both
C25_Witness ==
    \E c \in Slots :
        /\ ViaRouter(c) /\ calls[c].name = "update_post"
        /\ Has(calls[c].args, "id")
        /\ Has(calls[c].args, "title") /\ calls[c].args.title = ""
        /\ calls[c].requests # <<>>
        /\ ~Has(calls[c].requests[1].req.data, "title")
        /\ ~Has(calls[c].requests[1].req.data, "id")

\* C26: a create and an update that succeed return the same fields: id,
\* title, link and status.
C26_UpdateProjectsAsCreate ==
    \A c \in Slots :
        /\ calls[c].method \in {"createPost", "updatePost", "createPage", "updatePage"}
        /\ Done(c) /\ ~calls[c].out.isError
        /\ calls[c].first.body = "json"
        => DOMAIN calls[c].out.value = {"id", "title", "link", "status"}

HasDot(s) == \E i \in 1..Len(s) : s[i] = "."

\* C27: the content type of an upload is the table's entry for the text after
\* the last dot of the filename, whatever its case, and
\* application/octet-stream when that text is not in the table or the
\* filename has no dot.
C27_MimeByExtension ==
    \A c \in Slots :
        calls[c].method = "uploadMedia" /\ calls[c].requests # <<>> =>
            LET filename == calls[c].args.filename
                ext == toLowerCase(SubSeq(filename, LastDot(filename) + 1, Len(filename)))
            IN calls[c].requests[1].req.headers["Content-Type"] =
                 IF HasDot(filename) /\ ext \in DOMAIN mimeTypes
                 THEN mimeTypes[ext]
                 ELSE "application/octet-stream"

C29_MetadataAfterBinary ==
    \A c \in Slots :
        calls[c].method = "uploadMedia" /\ calls[c].requests # <<>> =>
            LET reqs == calls[c].requests
                first == calls[c].first
            IN /\ Len(reqs) <= 2
               /\ Len(reqs) = 2 =>
                    /\ reqs[1].status = "ok"
                    /\ first.status = "ok"
                    /\ reqs[2].req.method = "POST"
                    /\ reqs[2].req.path = <<"/media/", IdStr(first.data)>>
                    /\ reqs[2].req.data = MetaUpdates(calls[c].args)
                    /\ UploadWithMeta(c)
               /\ FailedRequest(reqs[1]) => Len(reqs) = 1
               /\ ~UploadWithMeta(c) => Len(reqs) = 1

\* an upload with a caption has sent its metadata to the created item
C29_Witness ==
    \E c \in Slots :
        /\ ViaRouter(c) /\ calls[c].name = "upload_media"
        /\ Has(calls[c].args, "caption")
        /\ Len(calls[c].requests) = 2
        /\ calls[c].first.body = "json"
        /\ calls[c].requests[2].req.path = <<"/media/", ToString(calls[c].first.data.id)>>

MutatingMethods == {"createPost", "updatePost", "publishPost", "deletePost",
                    "uploadMedia", "deleteMedia"}

\* C30 as stated: a mutating call that ends with a failure has had none of
\* its requests carried out by the remote.
C30_FailureMeansUnchanged ==
    \A c \in Slots :
        calls[c].method \in MutatingMethods /\ Failed(c) =>
            \A i \in DOMAIN calls[c].requests : ~calls[c].requests[i].applied

\* C30: a mutating call ends with a success when the remote answered every
\* request of the call with a 2xx and a well-formed body.
C30_AnsweredMeansSuccess ==
    \A c \in Slots :
        /\ calls[c].method \in MutatingMethods
        /\ Done(c) /\ calls[c].requests # <<>>
        /\ \A i \in DOMAIN calls[c].requests :
              calls[c].requests[i].status = "ok" /\ calls[c].requests[i].body = "json"
        => /\ ~calls[c].out.isError
           /\ \A i \in DOMAIN calls[c].requests : calls[c].requests[i].applied

\* a forced delete_post that the remote carried out has ended well
C30_Witness ==
    \E c \in Slots :
        /\ ViaRouter(c) /\ Done(c) /\ calls[c].name = "delete_post"
        /\ Has(calls[c].args, "force") /\ calls[c].args.force
        /\ calls[c].requests[1].applied
        /\ calls[c].requests[1].body = "json"
        /\ ~calls[c].out.isError
        /\ 1 \notin DOMAIN remotePosts

====
